---- MODULE Spec2Model ----
(***************************************************************************)
(* A model of mcp-fred (src/src/mcp_fred/server.py): the lazily created    *)
(* FRED client, the call_tool dispatcher, FredClient.get_series with its   *)
(* record normalisation, the trailing-window slice and the text rendering. *)
(*                                                                         *)
(* One invocation of call_tool is two steps, split where the handler       *)
(* blocks in requests.get: CallBegin runs the handler up to the GET it     *)
(* issues (or to its return when it issues none), ReturnSeries and         *)
(* ReturnInfo run it from the upstream outcome to its return or raise.     *)
(* Python values are modelled by what the code does with them: None and a  *)
(* missing dict key are the sentinels None and Absent, a float is a record *)
(* [cls, x100], a text is a record of its literal head and the values      *)
(* interpolated into it.                                                   *)
(***************************************************************************)
EXTENDS Integers, Sequences, FiniteSets, TLC

VARIABLES
    environ,        \* os.environ.get("FRED_API_KEY", "")
    _client,        \* global _client: None, or the api_key of the FredClient
    _api_key,       \* global _api_key
    pc,             \* "idle", or "waiting" while call_tool blocks in requests.get
    name,           \* call_tool's name (NoCall before the first invocation)
    arguments,      \* call_tool's arguments
    requests,       \* the GETs the current invocation has issued, in order
    upstream,       \* what the GET of the current invocation came back with
    observations,   \* call_tool's observations, as client.get_series returned it
    windowed,       \* call_tool's observations after line 185
    result,         \* the list of TextContent call_tool returned (<<>>: none)
    raised          \* the exception that left call_tool, "none" if it returned

vars == <<environ, _client, _api_key, pc, name, arguments, requests, upstream,
          observations, windowed, result, raised>>

(***************************************************************************)
(* Bounds of the model.                                                    *)
(***************************************************************************)
MaxRecs == 3        \* longest upstream observation list
MaxLimit == 2       \* integer limits range over -MaxLimit..MaxLimit

(***************************************************************************)
(* Python values.                                                          *)
(***************************************************************************)
None == "<None>"
Absent == "<absent>"        \* a key the dict does not hold
Null == "<null>"            \* a JSON null (None inside upstream data)
NoCall == "<no call yet>"

DefaultLimit == 100
NotesLimit == 200

\* str(x) as the f-strings apply it to series_id
Str(x) == IF x = None THEN "None" ELSE x

\* dict.get(key) on a key that may be absent
DictGet(v) == IF v = Absent THEN None ELSE v

(***************************************************************************)
(* float(s): the strings the model feeds it, and what Python makes of      *)
(* them.  "." is FRED's marker of a missing value.                         *)
(***************************************************************************)
RawValues == {"5.25", ".", Null, Absent, "nan", "inf"}

FloatRaises(v) ==
    CASE v = Null -> "TypeError"
      [] v \in {"5.25", "nan", "inf"} -> "none"
      [] OTHER -> "ValueError"

FloatOf(v) ==
    CASE v = "5.25" -> [cls |-> "finite", x100 |-> 525]
      [] v = "nan" -> [cls |-> "nan", x100 |-> 0]
      [] v = "inf" -> [cls |-> "inf", x100 |-> 0]

NoFloat == [cls |-> "none", x100 |-> 0]

(***************************************************************************)
(* What a GET can come back with.  fail is the exception requests.get,     *)
(* raise_for_status or response.json raises ("none": a 2xx JSON object);   *)
(* hasKey says whether the object holds the endpoint's top-level key       *)
(* ('observations' / 'seriess'); items is the array under that key.        *)
(***************************************************************************)
Failures == {"ConnectionError", "ReadTimeout", "HTTPError", "JSONDecodeError"}

NoUpstream == [fail |-> "none", hasKey |-> FALSE, items |-> <<>>]
Failed(f) == [fail |-> f, hasKey |-> FALSE, items |-> <<>>]
Body(xs) == [fail |-> "none", hasKey |-> TRUE, items |-> xs]

\* upstream returns observations in ascending date order: 2024-01-01, 2024-02-01, ...
DateAt(i) == 20240001 + 100 * i

RawRecordLists ==
    UNION {{[i \in 1..n |-> [date |-> DateAt(i), value |-> f[i]]] :
                f \in [1..n -> RawValues]} : n \in 0..MaxRecs}

ObservationOutcomes ==
    {Failed(f) : f \in Failures} \cup {NoUpstream} \cup {Body(r) : r \in RawRecordLists}

\* a 'seriess' entry: title (the other plain fields are rendered the same way)
\* and notes, a string known by its length
NotesValues == {[t |-> "absent", len |-> 0], [t |-> "null", len |-> 0],
                [t |-> "str", len |-> 0], [t |-> "str", len |-> NotesLimit],
                [t |-> "str", len |-> NotesLimit + 1]}

SeriesRecords == {[title |-> t, notes |-> n] : t \in {"Federal Funds Rate", Absent},
                                                 n \in NotesValues}

InfoOutcomes ==
    {Failed(f) : f \in Failures} \cup {NoUpstream, Body(<<>>)}
        \cup {Body(<<s>>) : s \in SeriesRecords}

(***************************************************************************)
(* FredClient.get_series: the entries of the list it returns are dicts,    *)
(* {'date', 'value'} or {'error'}; error is Absent in the former.          *)
(***************************************************************************)
ObsDict(d, v) == [error |-> Absent, date |-> d, value |-> v]
ErrorDict(msg) == [error |-> msg, date |-> 0, value |-> NoFloat]

\* the for loop of lines 71-79 from record i on, acc the list built so far; a
\* KeyError of obs['value'] is not among the excepted types and leaves the loop
RECURSIVE NormalizeLoop(_, _, _)
NormalizeLoop(recs, i, acc) ==
    IF i > Len(recs) THEN [exc |-> "none", obs |-> acc]
    ELSE IF recs[i].value = Absent THEN [exc |-> "'value'", obs |-> acc]
    ELSE IF FloatRaises(recs[i].value) \in {"ValueError", "TypeError"}
         THEN NormalizeLoop(recs, i + 1, acc)
    ELSE NormalizeLoop(recs, i + 1,
                       Append(acc, ObsDict(recs[i].date, FloatOf(recs[i].value))))

\* a client that swallows the exception and returns an empty list
ExceptToEmpty(msg) == <<>>

\* what the except of line 83 turns into the returned list
ExceptToList(msg) == <<ErrorDict(msg)>>

FredClient_get_series(up) ==
    IF up.fail # "none" THEN ExceptToList(up.fail)
    ELSE IF ~up.hasKey THEN <<>>
    ELSE LET r == NormalizeLoop(up.items, 1, <<>>)
         IN  IF r.exc # "none" THEN ExceptToList(r.exc) ELSE r.obs

(***************************************************************************)
(* Line 185: observations[-limit:] if len(observations) > limit else       *)
(* observations.                                                           *)
(***************************************************************************)
\* s[start:] for a Python list
PySliceFrom(s, start) ==
    LET n == Len(s)
        lo == IF start < 0 THEN (IF n + start < 0 THEN 0 ELSE n + start)
              ELSE (IF start > n THEN n ELSE start)
    IN  SubSeq(s, lo + 1, n)

\* observations[:limit], the leading entries
FirstN(obs, limit) == SubSeq(obs, 1, limit)

LastN(obs, limit) == PySliceFrom(obs, 0 - limit)

Window(obs, limit) == IF Len(obs) > limit THEN LastN(obs, limit) ELSE obs

(***************************************************************************)
(* The texts call_tool returns: head is the literal part of the f-string,  *)
(* the other fields are the values interpolated into it.                   *)
(***************************************************************************)
BlankText == [head |-> "", series_id |-> "", detail |-> "", count |-> 0,
              period |-> <<>>, rows |-> <<>>, title |-> "", notesShown |-> 0,
              ellipsis |-> FALSE]

TextContent(t) == [type |-> "text", text |-> t]

ConfigErrorText ==
    [BlankText EXCEPT !.head = "ERROR: FRED_API_KEY environment variable not set"]

NoDataText(sid) ==
    [BlankText EXCEPT !.head = "No data retrieved for series '{series_id}'. Verify series ID validity or connectivity.",
                      !.series_id = Str(sid)]

ErrorText(msg) == [BlankText EXCEPT !.head = "Error: {error}", !.detail = msg]

MinDate(obs) == CHOOSE d \in {obs[i].date : i \in 1..Len(obs)} :
                    \A j \in 1..Len(obs) : d <= obs[j].date
MaxDate(obs) == CHOOSE d \in {obs[i].date : i \in 1..Len(obs)} :
                    \A j \in 1..Len(obs) : d >= obs[j].date

\* lines 188-196: header, period of the rendered observations, one row each
SeriesText(sid, obs) ==
    [BlankText EXCEPT !.head = IF obs # <<>>
                                THEN "Series: {series_id} Observations: {len} Period: {min} to {max} date | value"
                                ELSE "Series: {series_id} Observations: {len}",
                      !.series_id = Str(sid),
                      !.count = Len(obs),
                      !.period = IF obs # <<>> THEN <<MinDate(obs), MaxDate(obs)>> ELSE <<>>,
                      !.rows = [i \in 1..Len(obs) |-> [date |-> obs[i].date, value |-> obs[i].value]]]

NotFoundText(sid) ==
    [BlankText EXCEPT !.head = "Series '{series_id}' not found", !.series_id = Str(sid)]

\* lines 224-231; notes defaults to 'N/A' (three characters)
InfoText(sid, series) ==
    LET len == IF series.notes.t = "absent" THEN 3 ELSE series.notes.len
    IN  [BlankText EXCEPT !.head = "Series Information: {series_id} Title: {title} ... Notes: {notes}",
                          !.series_id = Str(sid),
                          !.title = IF series.title = Absent THEN "N/A" ELSE series.title,
                          !.notesShown = IF len > NotesLimit THEN NotesLimit ELSE len,
                          !.ellipsis = len > NotesLimit]

InfoErrorText(msg) ==
    [BlankText EXCEPT !.head = "Error retrieving series info: {e}", !.detail = msg]

UnknownToolText(n) == [BlankText EXCEPT !.head = "Unknown tool: {name}", !.detail = n]

(***************************************************************************)
(* The tools list_tools advertises, and the arguments a caller can send.   *)
(***************************************************************************)
RegisteredTools == {"get_series", "get_series_info"}

ToolNames == RegisteredTools \cup {"get_quote"}

\* limit: absent, JSON null, a string, or an integer
LimitValues ==
    {[t |-> "absent", n |-> 0], [t |-> "null", n |-> 0], [t |-> "str", n |-> 0]}
        \cup {[t |-> "int", n |-> k] : k \in (0 - MaxLimit)..MaxLimit}

ArgumentBundles == [series_id : {"FEDFUNDS", Absent}, limit : LimitValues]

NoArguments == [series_id |-> Absent, limit |-> [t |-> "absent", n |-> 0]]

\* arguments.get("limit", 100)
LimitOf(args) ==
    IF args.limit.t = "absent" THEN [t |-> "int", n |-> DefaultLimit] ELSE args.limit

(***************************************************************************)
(* get_client, lines 24-31: the values it leaves in _api_key and _client.  *)
(***************************************************************************)
get_client_api_key == IF _client = None THEN environ ELSE _api_key

get_client ==
    IF _client = None THEN (IF environ # "" THEN environ ELSE None) ELSE _client

\* a check that only asks whether _api_key was ever assigned
NotConfiguredKeyIsNone(client, key) == key = None

\* line 151: not client or not _api_key
NotConfigured(client, key) == client = None \/ key = None \/ key = ""

(***************************************************************************)
(* The GETs of lines 62 and 213; requests leaves a None parameter out.     *)
(* start_date and end_date are passed through to the observations GET as   *)
(* observation_start and observation_end and are read nowhere else; the    *)
(* model leaves them out of the argument bundle and of the GET.            *)
(***************************************************************************)
Get(url, sid, key) == [url |-> url, series_id |-> sid, api_key |-> key]

\* a client that issues the observations GET a second time
ObservationsGetsTwice(sid, key) ==
    <<Get("https://api.stlouisfed.org/fred/series/observations", sid, key),
      Get("https://api.stlouisfed.org/fred/series/observations", sid, key)>>

ObservationsGets(sid, key) ==
    <<Get("https://api.stlouisfed.org/fred/series/observations", sid, key)>>

InfoGets(sid, key) == <<Get("https://api.stlouisfed.org/fred/series", sid, key)>>

\* call_tool holds no await: the handler blocks in requests.get, and the event
\* loop starts no other invocation before it has returned
Accepting == pc = "idle"

(***************************************************************************)
(* Init: the module is imported, no tool has been called.                  *)
(***************************************************************************)
Init ==
    /\ environ \in {"", "key-1", "key-2"}
    /\ _client = None
    /\ _api_key = None
    /\ pc = "idle"
    /\ name = NoCall
    /\ arguments = NoArguments
    /\ requests = <<>>
    /\ upstream = NoUpstream
    /\ observations = <<>>
    /\ windowed = <<>>
    /\ result = <<>>
    /\ raised = "none"

\* os.environ changes between (or during) invocations
SetEnv(k) ==
    /\ k # environ
    /\ environ' = k
    /\ UNCHANGED <<_client, _api_key, pc, name, arguments, requests, upstream,
                   observations, windowed, result, raised>>

(***************************************************************************)
(* call_tool, lines 147-169 and 200-213, and line 241: get_client, the     *)
(* credential check, routing, argument extraction, and the GET.            *)
(***************************************************************************)
CallBegin(n, args) ==
    /\ Accepting
    /\ _client' = get_client
    /\ _api_key' = get_client_api_key
    /\ name' = n
    /\ arguments' = args
    /\ upstream' = NoUpstream
    /\ observations' = <<>>
    /\ windowed' = <<>>
    /\ UNCHANGED environ
    /\ IF NotConfigured(_client', _api_key')
       THEN /\ result' = <<TextContent(ConfigErrorText)>>
            /\ requests' = <<>>
            /\ raised' = "none"
            /\ pc' = "idle"
       ELSE IF n = "get_series" /\ _client' = None
       THEN \* client.get_series on None
            /\ result' = <<>>
            /\ requests' = <<>>
            /\ raised' = "AttributeError"
            /\ pc' = "idle"
       ELSE IF n = "get_series"
       THEN /\ result' = <<>>
            /\ requests' = ObservationsGets(DictGet(args.series_id), _client')
            /\ raised' = "none"
            /\ pc' = "waiting"
       ELSE IF n = "get_series_info"
       THEN /\ result' = <<>>
            /\ requests' = InfoGets(DictGet(args.series_id), _api_key')
            /\ raised' = "none"
            /\ pc' = "waiting"
       ELSE /\ result' = <<TextContent(UnknownToolText(n))>>
            /\ requests' = <<>>
            /\ raised' = "none"
            /\ pc' = "idle"

(***************************************************************************)
(* call_tool, lines 169-198: client.get_series returns, the two early      *)
(* returns, the window, the rendering.                                     *)
(***************************************************************************)
ReturnSeries(up) ==
    /\ pc = "waiting"
    /\ name = "get_series"
    /\ LET series_id == DictGet(arguments.series_id)
           limit == LimitOf(arguments)
           obs == FredClient_get_series(up)
       IN  /\ upstream' = up
           /\ observations' = obs
           /\ IF obs = <<>>
              THEN /\ windowed' = <<>>
                   /\ result' = <<TextContent(NoDataText(series_id))>>
                   /\ raised' = "none"
              ELSE IF obs[1].error # Absent
              THEN /\ windowed' = <<>>
                   /\ result' = <<TextContent(ErrorText(obs[1].error))>>
                   /\ raised' = "none"
              ELSE IF limit.t # "int"
              THEN \* len(observations) > limit with limit None or a str
                   /\ windowed' = <<>>
                   /\ result' = <<>>
                   /\ raised' = "TypeError"
              ELSE /\ windowed' = Window(obs, limit.n)
                   /\ result' = <<TextContent(SeriesText(series_id, windowed'))>>
                   /\ raised' = "none"
    /\ pc' = "idle"
    /\ UNCHANGED <<environ, _client, _api_key, name, arguments, requests>>

(***************************************************************************)
(* call_tool, lines 212-239: the metadata GET returns.                     *)
(***************************************************************************)
ReturnInfo(up) ==
    /\ pc = "waiting"
    /\ name = "get_series_info"
    /\ LET series_id == DictGet(arguments.series_id)
       IN  /\ upstream' = up
           /\ result' =
                IF up.fail # "none"
                THEN <<TextContent(InfoErrorText(up.fail))>>
                ELSE IF ~up.hasKey \/ up.items = <<>>
                THEN <<TextContent(NotFoundText(series_id))>>
                ELSE IF up.items[1].notes.t = "null"
                THEN \* notes[:200] on None, caught by the except of line 235
                     <<TextContent(InfoErrorText("TypeError"))>>
                ELSE <<TextContent(InfoText(series_id, up.items[1]))>>
    /\ raised' = "none"
    /\ pc' = "idle"
    /\ UNCHANGED <<environ, _client, _api_key, name, arguments, requests,
                   observations, windowed>>

Next ==
    \/ \E k \in {"", "key-1", "key-2"} : SetEnv(k)
    \/ \E n \in ToolNames, args \in ArgumentBundles : CallBegin(n, args)
    \/ \E up \in ObservationOutcomes : ReturnSeries(up)
    \/ \E up \in InfoOutcomes : ReturnInfo(up)

Spec == Init /\ [][Next]_vars

(***************************************************************************)
(* The claims.                                                             *)
(***************************************************************************)
Invoked == name # NoCall
Returned == Invoked /\ pc = "idle"
TextHead == IF result = <<>> THEN "" ELSE result[1].text.head

\* get_series went past both early returns with an integer limit
Rendered ==
    /\ Returned
    /\ name = "get_series"
    /\ observations # <<>>
    /\ observations[1].error = Absent
    /\ LimitOf(arguments).t = "int"

RowsOf(obs) == [i \in 1..Len(obs) |-> [date |-> obs[i].date, value |-> obs[i].value]]

\* C1: an invocation that finds no credential (get_client returns None: the
\* variable was empty when it was read and no client was stored before) returns
\* the fixed configuration-error text, whatever the tool name and the arguments,
\* and issues no GET.
C1_MissingCredential ==
    (Invoked /\ _client = None) =>
        /\ pc = "idle"
        /\ raised = "none"
        /\ result = <<TextContent(ConfigErrorText)>>
        /\ requests = <<>>

C1_Witness ==
    /\ Invoked
    /\ _client = None
    /\ name = "get_series"
    /\ arguments.series_id = Absent
    /\ arguments.limit.t = "null"
    /\ result = <<TextContent(ConfigErrorText)>>
    /\ requests = <<>>

\* C2: for a limit W > 0 and L normalized observations, the rendered rows are
\* the whole sequence when L <= W and its last W entries, in order, when L > W;
\* the count of the header is the number of rows rendered.
C2_Window ==
    (Rendered /\ LimitOf(arguments).n > 0) =>
        LET L == Len(observations)
            W == LimitOf(arguments).n
        IN  /\ L <= W => windowed = observations
            /\ L > W => /\ Len(windowed) = W
                        /\ \A i \in 1..W : windowed[i] = observations[L - W + i]
            /\ raised = "none"
            /\ Len(result) = 1
            /\ result[1].text.rows = RowsOf(windowed)
            /\ result[1].text.count = Len(result[1].text.rows)

C2_Witness ==
    /\ Rendered
    /\ LimitOf(arguments).n = 2
    /\ Len(observations) = 3
    /\ windowed = <<observations[2], observations[3]>>
    /\ result[1].text.count = 2

\* C3: for a limit W <= 0 and a non-empty normalized sequence the window
\* truncates nothing: the rendered rows are the whole sequence.
C3_NonPositiveLimit ==
    (Rendered /\ LimitOf(arguments).n <= 0) =>
        /\ windowed = observations
        /\ result[1].text.rows = RowsOf(observations)

\* C4: on a successful response, normalization keeps exactly the records whose
\* value the float parser accepts, in upstream order, and drops the others (a
\* non-numeric value, a null, a missing value field); it never answers with the
\* error variant.
Parseable(r) == r.value \notin {Absent, Null, "."}
KeptOf(recs) ==
    LET kept == SelectSeq(recs, Parseable)
    IN  [i \in 1..Len(kept) |-> ObsDict(kept[i].date, FloatOf(kept[i].value))]

C4_DropsMalformed ==
    (Returned /\ name = "get_series" /\ upstream.fail = "none" /\ upstream.hasKey) =>
        observations = KeptOf(upstream.items)

\* C5: the normalized output is no longer than the raw record list and every
\* value in it is finite: no NaN and no Infinity survives.
C5_FiniteValues ==
    (Returned /\ name = "get_series" /\ upstream.fail = "none" /\ upstream.hasKey) =>
        /\ Len(observations) <= Len(upstream.items)
        /\ \A i \in 1..Len(observations) :
              observations[i].error = Absent => observations[i].value.cls = "finite"

\* C6: every invocation returns exactly one text content item and raises
\* nothing, whatever the name, the arguments and the upstream outcome.
C6_OneTextNeverRaises ==
    Returned => /\ raised = "none"
                /\ Len(result) = 1
                /\ result[1].type = "text"

\* C7: with a credential, a transport failure (network error, timeout, non-2xx,
\* undecodable body) yields an 'Error...' text in both tools; a reachable
\* upstream with nothing to show yields the tool's not-found text ('No data
\* retrieved' when 'observations' is missing or every record is dropped,
\* 'Series ... not found' when 'seriess' is missing or empty); an unregistered
\* name yields 'Unknown tool'.  No transport failure gets a not-found text and
\* no not-found outcome gets an error text.
AllDropped(recs) == \A i \in 1..Len(recs) : recs[i].value \in {".", Null}
TransportFailure == upstream.fail # "none"
NotFoundOutcome ==
    /\ upstream.fail = "none"
    /\ \/ ~upstream.hasKey
       \/ name = "get_series" /\ AllDropped(upstream.items)
       \/ name = "get_series_info" /\ upstream.items = <<>>
ErrorHeads == {ErrorText("").head, InfoErrorText("").head}
NotFoundHeads == {NoDataText(None).head, NotFoundText(None).head, UnknownToolText("").head}

C8_RequiredSeriesId ==
    (Invoked /\ _client # None /\ name \in RegisteredTools
        /\ arguments.series_id = Absent) => requests = <<>>

\* C9: after the first access by get_client the stored credential and client
\* are never written again, whatever the environment variable becomes.
C9_InitializedOnce ==
    [][Invoked => (_client' = _client /\ _api_key' = _api_key)]_vars

\* C10: an invocation with a credential issues exactly one GET for get_series
\* and for get_series_info, whatever comes back, and none for an unknown name;
\* an invocation without a credential issues none; a GET is issued only when the
\* invocation before it has returned, and none is issued again on return.
C10_OneRequest ==
    /\ [](Invoked =>
            IF _client # None /\ name \in RegisteredTools
            THEN Len(requests) = 1
            ELSE requests = <<>>)
    /\ [][requests' # requests => (pc = "idle" /\ (Invoked => (result # <<>> \/ raised # "none")))]_vars

C10_Witness ==
    /\ Returned
    /\ name = "get_series"
    /\ upstream.fail = "ReadTimeout"
    /\ Len(requests) = 1
    /\ result = <<TextContent(ErrorText("ReadTimeout"))>>

====
